---- MODULE Spec2Model ----
(***************************************************************************)
(* A model of rpc_gds_export.py: the geometry helpers and the polygon     *)
(* list they register into, the module body that runs the 8-channel       *)
(* layout and then writes the artifacts, and the GDSWriter record encoder. *)
(*                                                                         *)
(* Numbers.  Lengths are integers in thousandths of a layout unit (0.45   *)
(* is 450), colour channels in ten-thousandths (0.7 is 7000), angles in   *)
(* degrees.  A point is <<x, y, e>>: e is the part of y that lies below   *)
(* the grid, nonzero only where the float residue of math.sin(2*pi)       *)
(* survives an addition (see RingPoint).                                   *)
(***************************************************************************)
EXTENDS Integers, Sequences, FiniteSets, TLC

VARIABLES
    all_polygons,   \* the module-level list: <<[points, color], ...>>
    origin,         \* history: for each entry of all_polygons, the call that registered it
    pc,             \* position of the module body
    chan,           \* the loop variable i of the layout loop
    step,           \* the statement of the loop body that runs next (0..5)
    fs,             \* generated/ : artifact name -> "absent" | "stale" | "partial" | "written"
    out,            \* what was printed, in order
    ran,            \* history: the pipeline steps begun, in order
    lastCall,       \* history: the last helper call, its arguments, result and the list before it
    file,           \* GDSWriter: the chunks handed to self.file.write, in order
    fopen,          \* GDSWriter: self.file is open
    unit,           \* GDSWriter: self.unit
    precision,      \* GDSWriter: self.precision
    lastOp          \* history: the last GDSWriter call, its arguments, outcome and the file before it

geomVars == <<all_polygons, origin, lastCall>>
runVars  == <<pc, chan, step, fs, out, ran>>
gdsVars  == <<file, fopen, unit, precision, lastOp>>
vars     == <<all_polygons, origin, lastCall, pc, chan, step, fs, out, ran,
              file, fopen, unit, precision, lastOp>>

----------------------------------------------------------------------------
(* Arithmetic helpers                                                      *)

Milli(u) == u * 1000

Abs(a) == IF a < 0 THEN -a ELSE a

Max(a, b) == IF a >= b THEN a ELSE b

\* a / b rounded to the nearest integer (b > 0), as a float quotient lands on the grid
DivRound(a, b) ==
    IF a >= 0 THEN (2 * a + b) \div (2 * b) ELSE -((2 * (-a) + b) \div (2 * b))

RECURSIVE SqrtSearch(_, _, _)
SqrtSearch(n, lo, hi) ==
    IF lo >= hi THEN lo
    ELSE LET mid == (lo + hi + 1) \div 2
         IN  IF mid * mid <= n THEN SqrtSearch(n, mid, hi) ELSE SqrtSearch(n, lo, mid - 1)

\* floor of the square root of n, 0 <= n < 2^31
ISqrt(n) == SqrtSearch(n, 0, 46340)

\* math.hypot: the operands are scaled down before squaring so the squares stay in
\* range, as libm does; the result is 0 exactly when both operands are 0
hypot(dx, dy) ==
    IF dy = 0 THEN Abs(dx)
    ELSE IF dx = 0 THEN Abs(dy)
    ELSE LET k == (Max(Abs(dx), Abs(dy)) \div 30000) + 1
             a == Abs(dx) \div k
             b == Abs(dy) \div k
         IN  k * ISqrt(a * a + b * b)

\* math.cos(2*math.pi*i/64) and math.sin(2*math.pi*i/64) for i = 0..64, in
\* ten-thousandths; entry i is at index i + 1
CosTable ==
    << 10000, 9952, 9808, 9569, 9239, 8819, 8315, 7730,
       7071, 6344, 5556, 4714, 3827, 2903, 1951, 980,
       0, -980, -1951, -2903, -3827, -4714, -5556, -6344,
       -7071, -7730, -8315, -8819, -9239, -9569, -9808, -9952,
       -10000, -9952, -9808, -9569, -9239, -8819, -8315, -7730,
       -7071, -6344, -5556, -4714, -3827, -2903, -1951, -980,
       0, 980, 1951, 2903, 3827, 4714, 5556, 6344,
       7071, 7730, 8315, 8819, 9239, 9569, 9808, 9952,
       10000 >>

SinTable ==
    << 0, 980, 1951, 2903, 3827, 4714, 5556, 6344,
       7071, 7730, 8315, 8819, 9239, 9569, 9808, 9952,
       10000, 9952, 9808, 9569, 9239, 8819, 8315, 7730,
       7071, 6344, 5556, 4714, 3827, 2903, 1951, 980,
       0, -980, -1951, -2903, -3827, -4714, -5556, -6344,
       -7071, -7730, -8315, -8819, -9239, -9569, -9808, -9952,
       -10000, -9952, -9808, -9569, -9239, -8819, -8315, -7730,
       -7071, -6344, -5556, -4714, -3827, -2903, -1951, -980,
       0 >>

RECURSIVE Pow2Below(_, _)
\* the largest p * 2^k <= v (v >= p > 0)
Pow2Below(v, p) == IF 2 * p > v THEN p ELSE Pow2Below(v, 2 * p)

\* The residue of a full turn.  In doubles math.sin(2*math.pi) is -2.449e-16, which
\* is -2.206 * 2^-53, so yc + r*sin(2*pi) differs from yc unless the product is
\* below half an ulp of yc, that is unless r * 2.206 < 2^floor(log2 |yc|).
\* The result is the e component of the ring's last point: 0 (absorbed) or -1.
SinResidue(yc, r) ==
    IF r = 0 THEN 0
    \* below 1.0 the power of two under |yc| is bounded by |yc| itself
    ELSE IF Abs(yc) < Milli(1) THEN (IF Abs(r) * 2206 < Abs(yc) * 1000 THEN 0 ELSE -1)
    ELSE IF Abs(r) * 2206 < Pow2Below(Abs(yc), Milli(1)) * 1000 THEN 0 ELSE -1

----------------------------------------------------------------------------
(* Layout parameters and colours                                           *)

bus_x_start == Milli(100)
core_x      == Milli(300)
core_y      == Milli(0)
core_size   == Milli(120)
mod_size    == Milli(25)
wg_width    == 450

Grey(c) == <<c, c, c>>

DefaultPolygonColor == Grey(8000)      \* add_polygon, iq_mod_placeholder, detector_placeholder
DefaultWaveguideColor == Grey(7000)    \* waveguide_path
DefaultRingColor == Grey(5000)         \* ring_resonator_placeholder
White == Grey(10000)                   \* (1,1,1)
BusColor == Grey(6000)                 \* the central bus call

\* hue2rgb of hsl_to_rgb; t is in degrees, the t %= 1 of the code is the % 360 here
hue2rgb(p, q, t0) ==
    LET t == t0 % 360
    IN  IF t < 60 THEN p + ((q - p) * t) \div 60
        ELSE IF t < 180 THEN q
        ELSE IF t < 240 THEN p + ((q - p) * (240 - t)) \div 60
        ELSE p

\* hsl_to_rgb(h_deg, s, l): s and l in percent
hsl_to_rgb(h_deg, s, l) ==
    LET S == 100 * s
        L == 100 * l
    IN  IF S = 0 THEN <<L, L, L>>
        ELSE LET q == IF L < 5000 THEN (L * (10000 + S)) \div 10000
                      ELSE L + S - (L * S) \div 10000
                 p == 2 * L - q
             IN  << hue2rgb(p, q, h_deg + 120), hue2rgb(p, q, h_deg), hue2rgb(p, q, h_deg - 120) >>

----------------------------------------------------------------------------
(* Geometry helpers.  Each takes the list and yields [polys, returned,     *)
(* ret]: the list after the call, whether the call returned a value (a     *)
(* bare return yields nothing), and that value.                            *)

Last(s) == s[Len(s)]

\* a faulty add_polygon: registers the list as given, closed or not
AddPolygonNoClose(polys, points, color) ==
    Append(polys, [points |-> points, color |-> color])

\* add_polygon: close the point list in place when it is not closed, then register it
add_polygon(polys, points, color) ==
    LET closed == IF points[1] # Last(points) THEN Append(points, points[1]) ELSE points
    IN  Append(polys, [points |-> closed, color |-> color])

\* the list object the caller holds after add_polygon(points, ...) appended to it in place
AfterAdd(points) == IF points[1] # Last(points) THEN Append(points, points[1]) ELSE points

\* a faulty waveguide_path: no early return for a zero length
WaveguideNoGuard(polys, x0, y0, x1, y1, width, color) ==
    LET pts == << <<x0, y0, 0>>, <<x1, y1, 0>>, <<x1, y1, 0>>, <<x0, y0, 0>> >>
    IN  [polys |-> add_polygon(polys, pts, color), returned |-> TRUE, ret |-> AfterAdd(pts)]

waveguide_path(polys, x0, y0, x1, y1, width, color) ==
    LET dx == x1 - x0
        dy == y1 - y0
        length == hypot(dx, dy)
    IN  IF length = 0 THEN [polys |-> polys, returned |-> FALSE, ret |-> << >>]
        ELSE LET half == width \div 2
                 \* px*half = -uy*half and py*half = ux*half, with ux = dx/length, uy = dy/length
                 pxh == DivRound(-(dy * half), length)
                 pyh == DivRound(dx * half, length)
                 pts == << <<x0 + pxh, y0 + pyh, 0>>,
                           <<x1 + pxh, y1 + pyh, 0>>,
                           <<x1 - pxh, y1 - pyh, 0>>,
                           <<x0 - pxh, y0 - pyh, 0>> >>
             IN  [polys |-> add_polygon(polys, pts, color), returned |-> TRUE, ret |-> AfterAdd(pts)]

RingSides == 64

\* the point (xc + r*cos(2*pi*i/n), yc + r*sin(2*pi*i/n)); cos is exactly 1.0 at i = 0
\* and i = n, sin is exactly 0.0 at i = 0 only
RingPoint(xc, yc, r, i) ==
    << xc + DivRound(r * CosTable[i + 1], 10000),
       yc + DivRound(r * SinTable[i + 1], 10000),
       IF i = RingSides THEN SinResidue(yc, r) ELSE 0 >>

RingBoundary(xc, yc, r) == [k \in 1..(RingSides + 1) |-> RingPoint(xc, yc, r, k - 1)]

\* a faulty ring_resonator_placeholder: the two radii exchanged
RingSwapped(polys, xc, yc, radius, width, color) ==
    LET outer == RingBoundary(xc, yc, radius - width \div 2)
        inner == RingBoundary(xc, yc, radius + width \div 2)
    IN  [polys |-> add_polygon(add_polygon(polys, outer, color), inner, White), returned |-> TRUE, ret |-> AfterAdd(outer)]

ring_resonator_placeholder(polys, xc, yc, radius, width, color) ==
    LET outer == RingBoundary(xc, yc, radius + width \div 2)
        inner == RingBoundary(xc, yc, radius - width \div 2)
    IN  [polys |-> add_polygon(add_polygon(polys, outer, color), inner, White), returned |-> TRUE, ret |-> AfterAdd(outer)]

iq_mod_placeholder(polys, x, y, size, color) ==
    LET pts == << <<x, y, 0>>, <<x + size, y, 0>>, <<x + size, y + size, 0>>, <<x, y + size, 0>> >>
    IN  [polys |-> add_polygon(polys, pts, color), returned |-> TRUE, ret |-> AfterAdd(pts)]

detector_placeholder(polys, x, y, size, color) ==
    LET pts == << <<x, y, 0>>, <<x + size, y, 0>>, <<x + size, y + size, 0>>, <<x, y + size, 0>> >>
    IN  [polys |-> add_polygon(polys, pts, color), returned |-> TRUE, ret |-> AfterAdd(pts)]

----------------------------------------------------------------------------
(* History of helper calls                                                 *)

NoCall == [op |-> "none", args |-> << >>, color |-> Grey(0), before |-> << >>,
           returned |-> FALSE, ret |-> << >>]

Called(op, args, color, res) ==
    [op |-> op, args |-> args, color |-> color, before |-> all_polygons,
     returned |-> res.returned, ret |-> res.ret]

\* k entries of origin, one per polygon a call registered
Tags(ch, kinds, polysAfter) ==
    [j \in 1..(Len(polysAfter) - Len(all_polygons)) |-> [ch |-> ch, kind |-> kinds[j]]]

\* a helper call as a step: the list, its history and the call record
Register(op, args, color, res, ch, kinds) ==
    /\ all_polygons' = res.polys
    /\ origin' = origin \o Tags(ch, kinds, res.polys)
    /\ lastCall' = Called(op, args, color, res)

----------------------------------------------------------------------------
(* The module body: layout loop, central bus, metadata, the two figures,   *)
(* self-test.                                                              *)

NumChannels == 8

\* a faulty loop bound
NumChannelsHalved == NumChannels \div 2

LoopCount == NumChannels

expected_poly == 8 * 4

MetadataFile == "rpc_interface_metadata.json"
PreviewFile  == "rpc_interface_preview.svg"
RampFile     == "phase_fidelity_ramp.svg"

Artifacts == <<MetadataFile, PreviewFile, RampFile>>

ArtifactSet == {Artifacts[k] : k \in 1..Len(Artifacts)}

\* how writing one file can end: written and closed, or an OSError from the open,
\* or an error after the open truncated the file
IoOutcomes == {"ok", "open_failed", "write_failed"}

\* y = i*15.0 - 52.5 and hue = i*45.0 of iteration i
ChannelY(i) == i * Milli(15) - 52500

ChannelHue(i) == i * 45

ChannelRgb(i) == hsl_to_rgb(ChannelHue(i), 70, 70)

InLoop(k) == pc = "layout" /\ chan < LoopCount /\ step = k

NextStatement ==
    /\ step' = (step + 1) % 6
    /\ chan' = IF step = 5 THEN chan + 1 ELSE chan
    /\ pc' = pc
    /\ ran' = IF ran = << >> THEN <<"geometry">> ELSE ran
    /\ UNCHANGED <<fs, out>>
    /\ UNCHANGED gdsVars

LoopRing ==
    /\ InLoop(0)
    /\ LET xc == bus_x_start + Milli(50) + chan * Milli(20)
           res == ring_resonator_placeholder(all_polygons, xc, ChannelY(chan), Milli(10), 450,
                                             ChannelRgb(chan))
       IN  Register("ring_resonator_placeholder", <<xc, ChannelY(chan), Milli(10), 450>>,
                    ChannelRgb(chan), res, chan, <<"ring_outer", "ring_inner">>)
    /\ NextStatement

LoopBusToRing ==
    /\ InLoop(1)
    /\ LET y == ChannelY(chan)
           a == <<bus_x_start + Milli(20), y, bus_x_start + Milli(80), y>>
           res == waveguide_path(all_polygons, a[1], a[2], a[3], a[4], wg_width,
                                 DefaultWaveguideColor)
       IN  Register("waveguide_path", a \o <<wg_width>>, DefaultWaveguideColor, res, chan,
                    <<"bus_to_ring">>)
    /\ NextStatement

LoopRingToDrop ==
    /\ InLoop(2)
    /\ LET y == ChannelY(chan)
           a == <<bus_x_start + Milli(80), y, bus_x_start + Milli(80), y + Milli(10)>>
           res == waveguide_path(all_polygons, a[1], a[2], a[3], a[4], wg_width,
                                 ChannelRgb(chan))
       IN  Register("waveguide_path", a \o <<wg_width>>, ChannelRgb(chan), res, chan,
                    <<"ring_to_drop">>)
    /\ NextStatement

LoopDropToBus ==
    /\ InLoop(3)
    /\ LET y == ChannelY(chan)
           a == <<bus_x_start + Milli(80), y + Milli(10), bus_x_start - Milli(20), y>>
           res == waveguide_path(all_polygons, a[1], a[2], a[3], a[4], wg_width,
                                 ChannelRgb(chan))
       IN  Register("waveguide_path", a \o <<wg_width>>, ChannelRgb(chan), res, chan,
                    <<"drop_to_bus">>)
    /\ NextStatement

LoopModulator ==
    /\ InLoop(4)
    /\ LET a == <<bus_x_start - Milli(50), ChannelY(chan) - mod_size \div 2, Milli(25)>>
           res == iq_mod_placeholder(all_polygons, a[1], a[2], a[3], ChannelRgb(chan))
       IN  Register("iq_mod_placeholder", a, ChannelRgb(chan), res, chan, <<"modulator">>)
    /\ NextStatement

LoopDetector ==
    /\ InLoop(5)
    /\ LET a == <<core_x + core_size + Milli(50), ChannelY(chan) - mod_size \div 2, Milli(25)>>
           res == detector_placeholder(all_polygons, a[1], a[2], a[3], ChannelRgb(chan))
       IN  Register("detector_placeholder", a, ChannelRgb(chan), res, chan, <<"detector">>)
    /\ NextStatement

CentralBus ==
    /\ pc = "layout" /\ chan = LoopCount
    /\ LET a == <<0, 0, core_x + core_size + Milli(100), 0>>
           res == waveguide_path(all_polygons, a[1], a[2], a[3], a[4], wg_width, BusColor)
       IN  Register("waveguide_path", a \o <<wg_width>>, BusColor, res, -1, <<"central_bus">>)
    /\ pc' = "metadata"
    /\ ran' = IF ran = << >> THEN <<"geometry">> ELSE ran
    /\ UNCHANGED <<chan, step, fs, out>>
    /\ UNCHANGED gdsVars

\* a faulty step: a failed open is tried again
WriteArtifactRetry(name, label, here, next) ==
    /\ pc = here
    /\ ran' = Append(ran, label)
    /\ \E o \in IoOutcomes :
        /\ fs' = CASE o = "ok" -> [fs EXCEPT ![name] = "written"]
                   [] o = "open_failed" -> fs
                   [] o = "write_failed" -> [fs EXCEPT ![name] = "partial"]
        /\ pc' = IF o = "ok" THEN next ELSE IF o = "open_failed" THEN here ELSE "failed"
    /\ UNCHANGED <<chan, step, out>>
    /\ UNCHANGED geomVars
    /\ UNCHANGED gdsVars

\* one artifact: open(path, "w") / savefig(path), the write, the close.  An uncaught
\* error ends the process; nothing catches it and nothing removes the file.
WriteArtifact(name, label, here, next) ==
    /\ pc = here
    /\ ran' = Append(ran, label)
    /\ \E o \in IoOutcomes :
        /\ fs' = CASE o = "ok" -> [fs EXCEPT ![name] = "written"]
                   [] o = "open_failed" -> fs
                   [] o = "write_failed" -> [fs EXCEPT ![name] = "partial"]
        /\ pc' = IF o = "ok" THEN next ELSE "failed"
    /\ UNCHANGED <<chan, step, out>>
    /\ UNCHANGED geomVars
    /\ UNCHANGED gdsVars

WriteMetadata == WriteArtifact(MetadataFile, "metadata", "metadata", "preview")

RenderPreview == WriteArtifact(PreviewFile, "preview", "preview", "ramp")

RenderRamp == WriteArtifact(RampFile, "ramp", "ramp", "selftest")

PassedMessage(n) == [text |-> "Self-test passed: polygons generated", value |-> <<n>>]

CompletionNotice == [text |-> "All files generated in generated/", value |-> << >>]

SelfTest ==
    /\ pc = "selftest"
    /\ ran' = Append(ran, "selfcheck")
    /\ IF Len(all_polygons) >= expected_poly
       THEN /\ out' = out \o <<PassedMessage(Len(all_polygons)), CompletionNotice>>
            /\ pc' = "done"
       ELSE /\ out' = out
            /\ pc' = "failed"
    /\ UNCHANGED <<chan, step, fs>>
    /\ UNCHANGED geomVars
    /\ UNCHANGED gdsVars

\* the record of encoder calls before any was made
NoTime == <<0, 0, 0, 0, 0, 0>>

NoOp == [op |-> "none", ok |-> TRUE, wasOpen |-> FALSE, before |-> << >>, now |-> NoTime,
         layer |-> 0, datatype |-> 0, points |-> << >>, size |-> 0]

\* the encoder before GDSWriter(filename) ran: the module body never constructs one
NoWriter ==
    /\ file = << >>
    /\ fopen = FALSE
    /\ unit = 0
    /\ precision = 0
    /\ lastOp = NoOp

RunInit ==
    /\ all_polygons = << >>
    /\ origin = << >>
    /\ lastCall = NoCall
    /\ pc = "layout"
    /\ chan = 0
    /\ step = 0
    /\ fs \in [ArtifactSet -> {"absent", "stale"}]
    /\ out = << >>
    /\ ran = << >>
    /\ NoWriter

RunNext ==
    \/ LoopRing
    \/ LoopBusToRing
    \/ LoopRingToDrop
    \/ LoopDropToBus
    \/ LoopModulator
    \/ LoopDetector
    \/ CentralBus
    \/ WriteMetadata
    \/ RenderPreview
    \/ RenderRamp
    \/ SelfTest

SpecRun == RunInit /\ [][RunNext]_vars

----------------------------------------------------------------------------
(* The helpers called on their own, in any order, on whatever list the     *)
(* earlier calls left.                                                     *)

MaxCalls == 2

CallPoints == { <<0, 0>>, <<Milli(3), Milli(4)>> }

CallWidths == {0, 450}

CallColors == {DefaultRingColor, ChannelRgb(0)}

RingCentres == { <<0, 0>>, <<Milli(150), -52500>> }

RingWidths == {450, Milli(2)}

MoreCalls == pc = "calls" /\ Len(ran) < MaxCalls

Counted(op) ==
    /\ ran' = Append(ran, op)
    /\ UNCHANGED <<pc, chan, step, fs, out>>
    /\ UNCHANGED gdsVars

CallWaveguide ==
    /\ MoreCalls
    /\ \E a \in CallPoints, b \in CallPoints, w \in CallWidths, c \in CallColors :
        Register("waveguide_path", <<a[1], a[2], b[1], b[2], w>>, c,
                 waveguide_path(all_polygons, a[1], a[2], b[1], b[2], w, c), -1, <<"waveguide">>)
    /\ Counted("waveguide_path")

CallRing ==
    /\ MoreCalls
    /\ \E z \in RingCentres, w \in RingWidths, c \in CallColors :
        Register("ring_resonator_placeholder", <<z[1], z[2], Milli(10), w>>, c,
                 ring_resonator_placeholder(all_polygons, z[1], z[2], Milli(10), w, c), -1,
                 <<"ring_outer", "ring_inner">>)
    /\ Counted("ring_resonator_placeholder")

CallIqMod ==
    /\ MoreCalls
    /\ \E a \in CallPoints :
        Register("iq_mod_placeholder", <<a[1], a[2], mod_size>>, DefaultPolygonColor,
                 iq_mod_placeholder(all_polygons, a[1], a[2], mod_size, DefaultPolygonColor), -1,
                 <<"modulator">>)
    /\ Counted("iq_mod_placeholder")

CallDetector ==
    /\ MoreCalls
    /\ \E a \in CallPoints :
        Register("detector_placeholder", <<a[1], a[2], mod_size>>, DefaultPolygonColor,
                 detector_placeholder(all_polygons, a[1], a[2], mod_size, DefaultPolygonColor), -1,
                 <<"detector">>)
    /\ Counted("detector_placeholder")

GeomInit ==
    /\ all_polygons = << >>
    /\ origin = << >>
    /\ lastCall = NoCall
    /\ pc = "calls"
    /\ chan = 0
    /\ step = 0
    /\ fs = [f \in ArtifactSet |-> "absent"]
    /\ out = << >>
    /\ ran = << >>
    /\ NoWriter

GeomNext == CallWaveguide \/ CallRing \/ CallIqMod \/ CallDetector

SpecGeom == GeomInit /\ [][GeomNext]_vars

----------------------------------------------------------------------------
(* GDSWriter.  The file is the sequence of chunks handed to file.write, one *)
(* per call: [part, nbytes, fields].  A length, a tag pair, a 2-byte field  *)
(* and a string are held byte by byte; 4-byte integers and doubles are held *)
(* as values, nbytes counting their bytes.  Physical coordinates and the    *)
(* two unit fields are integers in units of 1e-9, so 1.0 is 1000000000 and  *)
(* the quotient x / self.unit is exact.                                     *)

UnitSize == 1000        \* self.unit = 1e-6
Precision == 1          \* self.precision = 1e-9

\* a faulty pack: the value wraps modulo 2^16 instead of raising
PackHWrap(v) ==
    [ok |-> TRUE, nbytes |-> 2, fields |-> <<(v % 65536) \div 256, v % 256>>]

\* struct.pack(">H", v): [ok, nbytes, fields]; struct.error outside 0..65535
PackH(v) ==
    IF v < 0 \/ v > 65535 THEN [ok |-> FALSE, nbytes |-> 0, fields |-> << >>]
    ELSE [ok |-> TRUE, nbytes |-> 2, fields |-> <<v \div 256, v % 256>>]

\* struct.pack(">BB", a, b)
PackBB(a, b) ==
    IF a < 0 \/ a > 255 \/ b < 0 \/ b > 255 THEN [ok |-> FALSE, nbytes |-> 0, fields |-> << >>]
    ELSE [ok |-> TRUE, nbytes |-> 2, fields |-> <<a, b>>]

RECURSIVE PackHs(_)
\* struct.pack(">12H", ...): the big-endian byte pairs, in order
PackHs(vs) ==
    IF vs = << >> THEN [ok |-> TRUE, nbytes |-> 0, fields |-> << >>]
    ELSE LET h == PackH(vs[1])
             t == PackHs(Tail(vs))
         IN  IF h.ok /\ t.ok
             THEN [ok |-> TRUE, nbytes |-> 2 + t.nbytes, fields |-> h.fields \o t.fields]
             ELSE [ok |-> FALSE, nbytes |-> 0, fields |-> << >>]

\* struct.pack(">" + "i"*len(coords), *coords): 4 bytes each
PackI(coords) == [ok |-> TRUE, nbytes |-> 4 * Len(coords), fields |-> coords]

\* struct.pack(">dd", a, b): 8 bytes each
PackDD(a, b) == [ok |-> TRUE, nbytes |-> 16, fields |-> <<a, b>>]

\* b"": no bytes
Empty == [ok |-> TRUE, nbytes |-> 0, fields |-> << >>]

\* a bytes object of n bytes whose content plays no part
Opaque(n) == [ok |-> TRUE, nbytes |-> n, fields |-> << >>]

\* (name + "\x00").encode("ascii"): UnicodeEncodeError on a character above 127
EncodeAsciiZ(name) ==
    IF \E k \in 1..Len(name) : name[k] > 127 THEN [ok |-> FALSE, nbytes |-> 0, fields |-> << >>]
    ELSE [ok |-> TRUE, nbytes |-> Len(name) + 1, fields |-> Append(name, 0)]

\* b"RPC_INTERFACE\x00"
LibName == <<82, 80, 67, 95, 73, 78, 84, 69, 82, 70, 65, 67, 69, 0>>

Chunk(part, data) == [part |-> part, nbytes |-> data.nbytes, fields |-> data.fields]

\* write_record on the file f of an encoder whose handle is open or not: [file, ok].
\* The length is packed before the first write, so a length that does not fit raises
\* with nothing written; a write on a closed handle raises ValueError; the tags are
\* packed after the length went out.
write_record(f, open, rectype, datatype, data) ==
    LET length == PackH(4 + data.nbytes)
        tags == PackBB(rectype, datatype)
    IN  IF ~length.ok \/ ~open THEN [file |-> f, ok |-> FALSE]
        ELSE IF ~tags.ok THEN [file |-> Append(f, Chunk("len", length)), ok |-> FALSE]
        ELSE [file |-> f \o <<Chunk("len", length), Chunk("tags", tags), Chunk("data", data)>>,
              ok |-> TRUE]

\* the next statement of a method: pack, then write_record; nothing runs after a raise
Emit(res, open, rectype, datatype, data) ==
    IF ~res.ok THEN res
    ELSE IF ~data.ok THEN [file |-> res.file, ok |-> FALSE]
    ELSE write_record(res.file, open, rectype, datatype, data)

Begun(f) == [file |-> f, ok |-> TRUE]

\* a faulty write_header: the units record before the library name
write_header_units_first(f, open, now, u, prec) ==
    Emit(Emit(Emit(Emit(Begun(f), open, 0, 2, PackH(600)),
                   open, 1, 2, PackHs(now \o now)),
              open, 3, 5, PackDD(prec, u)),
         open, 2, 6, [ok |-> TRUE, nbytes |-> Len(LibName), fields |-> LibName])

write_header(f, open, now, u, prec) ==
    Emit(Emit(Emit(Emit(Begun(f), open, 0, 2, PackH(600)),
                   open, 1, 2, PackHs(now \o now)),
              open, 2, 6, [ok |-> TRUE, nbytes |-> Len(LibName), fields |-> LibName]),
         open, 3, 5, PackDD(prec, u))

begin_structure(f, open, now, name) ==
    Emit(Emit(Begun(f), open, 5, 2, PackHs(now \o now)),
         open, 6, 6, EncodeAsciiZ(name))

end_structure(f, open) == Emit(Begun(f), open, 7, 0, Empty)

\* a faulty scaling: the quotient rounded down (x // u)
FloorDiv(x, u) == x \div u

\* int(x / u): the quotient cut towards zero
TruncDiv(x, u) == IF x >= 0 THEN x \div u ELSE -((-x) \div u)

RECURSIVE Coords(_, _)
\* coords after the loop: x then y of each point, in order
Coords(points, u) ==
    IF points = << >> THEN << >>
    ELSE <<TruncDiv(points[1][1], u), TruncDiv(points[1][2], u)>> \o Coords(Tail(points), u)

write_boundary(f, open, layer, datatype, points, u) ==
    Emit(Emit(Emit(Emit(Emit(Begun(f), open, 8, 0, Empty),
                        open, 13, 2, PackH(layer)),
                   open, 14, 2, PackH(datatype)),
              open, 16, 3, PackI(Coords(points, u))),
         open, 17, 0, Empty)

\* a faulty close: the handle is released with no terminator written
close_no_terminator(f, open) == [file |-> f, ok |-> open]

\* close: the terminator record, then self.file.close()
close(f, open) == Emit(Begun(f), open, 4, 0, Empty)

MaxOps == 3

Clock == { <<2024, 1, 2, 3, 4, 5>>, <<2026, 11, 2, 18, 5, 59>> }

StructNames == { <<84, 79, 80>>, <<233>> }

Layers == {1, 65535, 65536}

Datatypes == {0, -1}

PointLists ==
    { << >>,
      << <<1000000000, 2000000000>> >>,
      << <<-1500, 2500>>, <<0, -999>>, <<1000, -1000>> >> }

RawTags == { <<44, 0>>, <<255, 255>> }

RawSizes == {0, 65531, 65532}

MoreOps == pc = "encoder" /\ Len(ran) < MaxOps

\* a method call as a step; close() releases the handle when its write_record returned
Did(op, res, now, layer, datatype, points, size) ==
    /\ file' = res.file
    /\ fopen' = IF op = "close" /\ res.ok THEN FALSE ELSE fopen
    /\ lastOp' = [op |-> op, ok |-> res.ok, wasOpen |-> fopen, before |-> file, now |-> now,
                  layer |-> layer, datatype |-> datatype, points |-> points, size |-> size]
    /\ ran' = Append(ran, op)
    /\ UNCHANGED <<unit, precision>>
    /\ UNCHANGED <<pc, chan, step, fs, out>>
    /\ UNCHANGED geomVars

GdsWriteHeader ==
    /\ MoreOps
    /\ \E now \in Clock :
        Did("write_header", write_header(file, fopen, now, unit, precision), now, 0, 0, << >>, 0)

GdsBeginStructure ==
    /\ MoreOps
    /\ \E now \in Clock, name \in StructNames :
        Did("begin_structure", begin_structure(file, fopen, now, name), now, 0, 0, name, 0)

GdsEndStructure ==
    /\ MoreOps
    /\ Did("end_structure", end_structure(file, fopen), NoTime, 0, 0, << >>, 0)

GdsWriteBoundary ==
    /\ MoreOps
    /\ \E layer \in Layers, datatype \in Datatypes, points \in PointLists :
        Did("write_boundary", write_boundary(file, fopen, layer, datatype, points, unit),
            NoTime, layer, datatype, points, 0)

GdsWriteRecord ==
    /\ MoreOps
    /\ \E t \in RawTags, n \in RawSizes :
        Did("write_record", write_record(file, fopen, t[1], t[2], Opaque(n)),
            NoTime, t[1], t[2], << >>, n)

GdsClose ==
    /\ MoreOps
    /\ Did("close", close(file, fopen), NoTime, 0, 0, << >>, 0)

\* the state GDSWriter(filename) leaves: an empty file, open, the two unit fields set
GdsInit ==
    /\ file = << >>
    /\ fopen = TRUE
    /\ unit = UnitSize
    /\ precision = Precision
    /\ lastOp = NoOp
    /\ all_polygons = << >>
    /\ origin = << >>
    /\ lastCall = NoCall
    /\ pc = "encoder"
    /\ chan = 0
    /\ step = 0
    /\ fs = [a \in ArtifactSet |-> "absent"]
    /\ out = << >>
    /\ ran = << >>

GdsNext ==
    \/ GdsWriteHeader
    \/ GdsBeginStructure
    \/ GdsEndStructure
    \/ GdsWriteBoundary
    \/ GdsWriteRecord
    \/ GdsClose

SpecGDS == GdsInit /\ [][GdsNext]_vars

----------------------------------------------------------------------------
(* Properties of the polygon list                                          *)

IsPrefix(s, t) == Len(s) <= Len(t) /\ \A k \in 1..Len(s) : s[k] = t[k]

\* the square of the distance from (xc, yc) to p, on the grid
Dist2(p, xc, yc) == (p[1] - xc) * (p[1] - xc) + (p[2] - yc) * (p[2] - yc)

\* p is at distance r from (xc, yc), up to the rounding of its two coordinates
AtRadius(p, xc, yc, r) ==
    /\ (r - 2) * (r - 2) <= Dist2(p, xc, yc)
    /\ Dist2(p, xc, yc) <= (r + 2) * (r + 2)

\* the number of points the helper hands to add_polygon for an entry of this kind
InputLen(kind) == IF kind \in {"ring_outer", "ring_inner"} THEN RingSides + 1 ELSE 4

\* the number of add_polygon calls the last helper call made
AddCalls ==
    CASE lastCall.op = "none" -> 0
      [] lastCall.op = "ring_resonator_placeholder" -> 2
      [] lastCall.op = "waveguide_path" -> IF lastCall.returned THEN 1 ELSE 0
      [] OTHER -> 1

\* C1: once the layout loop and the central bus call are done, all_polygons holds at
\* least 32 polygons; the self-test assertion is never the step that fails; and a run
\* that ends well has printed the passed message with the list's length and then the
\* completion notice.
C1_PolygonFloor ==
    /\ pc # "layout" => Len(all_polygons) >= 32
    /\ pc = "failed" => Last(ran) # "selfcheck"
    /\ pc = "done" => out = <<PassedMessage(Len(all_polygons)), CompletionNotice>>

C1_Witness ==
    /\ pc = "done"
    /\ Len(all_polygons) = 8 * 7 + 1
    /\ out = <<PassedMessage(8 * 7 + 1), CompletionNotice>>

\* C2: a waveguide_path call with coincident endpoints returns nothing and leaves the
\* list as it was, whatever the width, the colour and the list; a call with distinct
\* endpoints appends exactly one polygon, in the colour passed, and returns it.
C2_WaveguideDegeneracy ==
    lastCall.op = "waveguide_path" =>
        LET a == lastCall.args
        IN  IF a[1] = a[3] /\ a[2] = a[4]
            THEN ~lastCall.returned /\ all_polygons = lastCall.before
            ELSE /\ lastCall.returned
                 /\ Len(all_polygons) = Len(lastCall.before) + 1
                 /\ IsPrefix(lastCall.before, all_polygons)
                 /\ Last(all_polygons) = [points |-> lastCall.ret, color |-> lastCall.color]

C2_Witness ==
    /\ lastCall.op = "waveguide_path"
    /\ lastCall.args[1] = lastCall.args[3] /\ lastCall.args[2] = lastCall.args[4]
    /\ lastCall.args[5] = 450
    /\ Len(lastCall.before) = 1
    /\ origin[1].kind = "waveguide"
    /\ all_polygons = lastCall.before

\* C3: a ring_resonator_placeholder call appends exactly two polygons: first the outer
\* boundary, every point of it at distance radius + width/2 from the centre, in the
\* caller's colour; then the inner boundary, every point of it at distance
\* radius - width/2, in white whatever the caller's colour.
C3_RingGeometry ==
    lastCall.op = "ring_resonator_placeholder" =>
        LET a == lastCall.args
            n == Len(lastCall.before)
            outer == all_polygons[n + 1]
            inner == all_polygons[n + 2]
        IN  /\ Len(all_polygons) = n + 2
            /\ IsPrefix(lastCall.before, all_polygons)
            /\ \A k \in 1..Len(outer.points) :
                   AtRadius(outer.points[k], a[1], a[2], a[3] + a[4] \div 2)
            /\ Len(outer.points) >= RingSides + 1
            /\ outer.color = lastCall.color
            /\ \A k \in 1..Len(inner.points) :
                   AtRadius(inner.points[k], a[1], a[2], a[3] - a[4] \div 2)
            /\ Len(inner.points) >= RingSides + 1
            /\ inner.color = White

C3_Witness ==
    /\ lastCall.op = "ring_resonator_placeholder"
    /\ lastCall.color = ChannelRgb(0)
    /\ lastCall.args[4] = Milli(2)
    /\ Len(lastCall.before) = 1
    /\ Len(all_polygons) = 3
    /\ all_polygons[2].color = ChannelRgb(0)
    /\ all_polygons[3].color = White

\* C4: every polygon a channel's iteration registers for its ring, its three strips,
\* its modulator and its detector carries that channel's colour, the colour of hue
\* (i * 45) mod 360; the eight hues differ pairwise; and the bus colour is carried by
\* the central bus alone.
TintedKinds ==
    {"ring_outer", "bus_to_ring", "ring_to_drop", "drop_to_bus", "modulator", "detector"}

C4_ChannelTint ==
    /\ \A j \in 1..Len(all_polygons) :
           origin[j].kind \in TintedKinds =>
               all_polygons[j].color = hsl_to_rgb((origin[j].ch * 45) % 360, 70, 70)
    /\ \A a \in 0..(NumChannels - 1), b \in 0..(NumChannels - 1) :
           a # b => (a * 45) % 360 # (b * 45) % 360
    /\ \A j \in 1..Len(all_polygons) :
           all_polygons[j].color = BusColor => origin[j].kind = "central_bus"

\* C8: the steps run once each, in the order geometry, metadata, preview, ramp,
\* self-check; a step begins only when the step before it wrote its artifact, so a
\* failure ends the run there, with the earlier artifacts in place; the artifacts this
\* run has written are always a prefix of (metadata, preview, ramp); and the messages
\* are printed only when all three are written.
PipelineOrder == <<"geometry", "metadata", "preview", "ramp", "selfcheck">>

Written == {f \in ArtifactSet : fs[f] = "written"}

C8_FailStop ==
    /\ IsPrefix(ran, PipelineOrder)
    /\ \A k \in 1..Len(Artifacts) : Len(ran) >= k + 2 => fs[Artifacts[k]] = "written"
    /\ \E k \in 0..Len(Artifacts) : Written = {Artifacts[j] : j \in 1..k}
    /\ out # << >> => Written = ArtifactSet
    /\ pc = "failed" =>
           /\ out = << >>
           /\ Len(ran) \in 2..4 => fs[Artifacts[Len(ran) - 1]] # "written"
           /\ ~ENABLED RunNext

C8_Witness ==
    /\ pc = "failed"
    /\ ran = <<"geometry", "metadata", "preview">>
    /\ fs[MetadataFile] = "written"
    /\ fs[PreviewFile] = "partial"
    /\ fs[RampFile] = "stale"

\* C10: every registered polygon is closed; it holds the points its helper built, plus
\* the first point once more exactly when those did not end on it; and the list is the
\* list before the last helper call followed by one entry per add_polygon call of that
\* call, also once the metadata, the figures and the self-test have run.
C10_ClosedAppendOnly ==
    /\ \A j \in 1..Len(all_polygons) :
           LET pts == all_polygons[j].points
               n == InputLen(origin[j].kind)
           IN  /\ pts[1] = Last(pts)
               /\ Len(pts) = IF pts[1] # pts[n] THEN n + 1 ELSE n
    /\ IsPrefix(lastCall.before, all_polygons)
    /\ Len(all_polygons) = Len(lastCall.before) + AddCalls
    /\ Len(origin) = Len(all_polygons)

C10_Witness ==
    /\ pc = "done"
    /\ Len(all_polygons[1].points) = RingSides + 1
    /\ Len(all_polygons[15].points) = RingSides + 2
    /\ Len(all_polygons[3].points) = 5
    /\ lastCall.args = <<0, 0, Milli(520), 0, wg_width>>

----------------------------------------------------------------------------
(* Properties of the encoder                                               *)

\* one whole record as it lies in the file: the big-endian length 4 + n, the two tags,
\* the payload of n bytes
Rec(kind, sub, n, fields) ==
    << [part |-> "len", nbytes |-> 2, fields |-> <<(4 + n) \div 256, (4 + n) % 256>>],
       [part |-> "tags", nbytes |-> 2, fields |-> <<kind, sub>>],
       [part |-> "data", nbytes |-> n, fields |-> fields] >>

Terminator == Rec(4, 0, 0, << >>)

\* the two bytes of a 2-byte field, high byte first
Bytes2(v) == <<v \div 256, v % 256>>

\* c is x / UnitSize cut towards zero
IsTrunc(c, x) ==
    IF x >= 0 THEN c >= 0 /\ c * UnitSize <= x /\ x < (c + 1) * UnitSize
    ELSE c <= 0 /\ c * UnitSize >= x /\ x > (c - 1) * UnitSize

\* C5: close() on an open encoder appends the terminator record (kind 4, sub-kind 0,
\* no payload) and nothing else and releases the handle; every call made on a released
\* handle raises and leaves the file as it was; so once the handle is released the
\* terminator is the file's last record.
C5_CloseFinal ==
    /\ lastOp.op = "close" /\ lastOp.wasOpen =>
           lastOp.ok /\ ~fopen /\ file = lastOp.before \o Terminator
    /\ lastOp.op # "none" /\ ~lastOp.wasOpen =>
           ~lastOp.ok /\ ~fopen /\ file = lastOp.before
    /\ ~fopen => Len(file) >= 3 /\ SubSeq(file, Len(file) - 2, Len(file)) = Terminator

C5_Witness ==
    /\ ran = <<"write_header", "close", "write_boundary">>
    /\ ~lastOp.wasOpen
    /\ ~lastOp.ok
    /\ Len(file) = 15

C7_Header ==
    /\ unit = UnitSize
    /\ precision = Precision
    /\ lastOp.op = "write_header" /\ lastOp.wasOpen =>
           LET n == Len(lastOp.before)
               t == file[n + 6].fields
               name == file[n + 9].fields
           IN  /\ lastOp.ok
               /\ Len(file) = n + 12
               /\ SubSeq(file, 1, n) = lastOp.before
               /\ SubSeq(file, n + 1, n + 3) = Rec(0, 2, 2, Bytes2(600))
               /\ SubSeq(file, n + 4, n + 6) = Rec(1, 2, 24, t)
               /\ Len(t) = 24
               /\ SubSeq(t, 13, 24) = SubSeq(t, 1, 12)
               /\ \A k \in 1..6 : <<t[2 * k - 1], t[2 * k]>> = Bytes2(lastOp.now[k])
               /\ SubSeq(file, n + 7, n + 9) = Rec(2, 6, Len(name), name)
               /\ name # << >> /\ Last(name) = 0
               /\ \A k \in 1..(Len(name) - 1) : name[k] # 0
               /\ SubSeq(file, n + 10, n + 12) = Rec(3, 5, 16, <<Precision, UnitSize>>)

C7_Witness ==
    /\ ran = <<"end_structure", "write_header">>
    /\ lastOp.ok
    /\ lastOp.now = <<2026, 11, 2, 18, 5, 59>>
    /\ Len(file) = 15

\* C9: the file is always a run of whole records: a 2-byte big-endian length, two
\* 1-byte tags, a payload, the length being 4 + the payload's byte count.  A
\* write_record whose payload is longer than 65531 bytes raises and writes nothing; one
\* that fits, on an open encoder, appends one whole record.
C9_WholeRecords ==
    /\ Len(file) % 3 = 0
    /\ \A k \in 0..(Len(file) \div 3 - 1) :
           LET l == file[3 * k + 1]
               t == file[3 * k + 2]
               d == file[3 * k + 3]
           IN  /\ l.part = "len" /\ l.nbytes = 2 /\ Len(l.fields) = 2
               /\ \A b \in 1..2 : l.fields[b] \in 0..255
               /\ t.part = "tags" /\ t.nbytes = 2 /\ Len(t.fields) = 2
               /\ \A b \in 1..2 : t.fields[b] \in 0..255
               /\ d.part = "data"
               /\ 256 * l.fields[1] + l.fields[2] = 4 + d.nbytes
    /\ lastOp.op = "write_record" /\ lastOp.size > 65531 =>
           ~lastOp.ok /\ file = lastOp.before
    /\ lastOp.op = "write_record" /\ lastOp.size <= 65531 /\ lastOp.wasOpen =>
           /\ lastOp.ok
           /\ file = lastOp.before \o Rec(lastOp.layer, lastOp.datatype, lastOp.size, << >>)

C9_Witness ==
    /\ ran = <<"write_record", "write_record">>
    /\ lastOp.wasOpen
    /\ lastOp.size = 65532
    /\ ~lastOp.ok
    /\ file = Rec(255, 255, 65531, << >>)
    /\ file[1].fields = <<255, 255>>

====
